---- MODULE Spec2Model ----
(***************************************************************************)
(* Model of the phishing detection engine of the CyberGuard backend        *)
(* (backend/app/utils/phishing_detector.py) and of the callers in          *)
(* backend/app/main.py.                                                    *)
(*                                                                         *)
(* Texts are TLA+ strings; a character is a string of length one.          *)
(* Probabilities and the suspicion score are integers in hundredths        *)
(* (0.8 is 80): every comparison the code makes on them is against a       *)
(* multiple of 0.01, and the float sum of the suspicion factors falls on   *)
(* the same side of 0.5 and 0.7 as the exact sum for every combination of  *)
(* keyword counts the keyword lists allow.                                 *)
(***************************************************************************)
EXTENDS Integers, Sequences, FiniteSets, TLC

VARIABLES
    modelFile,    \* what os.path.exists / joblib.load find at models/phish_model.joblib
    detector,     \* the module-level _detector_instance
    loadCount,    \* number of load_model() runs so far
    loadFailed,   \* TRUE once a load_model() run has raised
    call,         \* the last call made by a caller, with its argument
    outcome,      \* how that call ended: a returned value or a raised exception
    riskIn,       \* arguments of the last direct _calculate_risk_level call
    riskOut,      \* its return value
    earlier,      \* an earlier predict_phishing call kept for comparison: its
                  \* argument, the detector it ran on and how it ended
    threads       \* the threads inside get_detector(): where each one is, the
                  \* object it has constructed and the one it has returned

vars == <<modelFile, detector, loadCount, loadFailed, call, outcome, riskIn, riskOut, earlier,
          threads>>

(***************************************************************************)
(* Characters and the str methods the code uses                            *)
(***************************************************************************)
Min(a, b) == IF a <= b THEN a ELSE b

Max(a, b) == IF a >= b THEN a ELSE b

Char(s, i) == SubSeq(s, i, i)

CharSet(s) == {Char(s, i) : i \in 1..Len(s)}

LOWER == "abcdefghijklmnopqrstuvwxyz"

UPPER == "ABCDEFGHIJKLMNOPQRSTUVWXYZ"

LowerSet == CharSet(LOWER)

UpperSet == CharSet(UPPER)

DigitSet == CharSet("0123456789")

\* \s of the re module, restricted to the characters the inputs use
SpaceSet == {" ", "\t", "\n"}

LowerChar(c) ==
    IF c \in UpperSet
    THEN Char(LOWER, CHOOSE i \in 1..26 : Char(UPPER, i) = c)
    ELSE c

RECURSIVE StrLower(_)
\* str.lower()
StrLower(s) ==
    IF Len(s) = 0 THEN ""
    ELSE IF Len(s) = 1 THEN LowerChar(s)
    ELSE StrLower(SubSeq(s, 1, Len(s) \div 2)) \o StrLower(SubSeq(s, Len(s) \div 2 + 1, Len(s)))

\* index of the first character of s at or after i that is in / not in S
\* (Len(s) + 1 when there is none)
SkipIn(s, i, S) ==
    CHOOSE j \in i..Max(i, Len(s) + 1) :
        /\ j > Len(s) \/ Char(s, j) \notin S
        /\ \A k \in i..(j - 1) : Char(s, k) \in S

SkipNotIn(s, i, S) ==
    CHOOSE j \in i..Max(i, Len(s) + 1) :
        /\ j > Len(s) \/ Char(s, j) \in S
        /\ \A k \in i..(j - 1) : Char(s, k) \notin S

\* str.strip()
StrStrip(s) ==
    LET b == SkipIn(s, 1, SpaceSet)
        e == CHOOSE j \in 0..Len(s) :
                 /\ j = 0 \/ Char(s, j) \notin SpaceSet
                 /\ \A k \in (j + 1)..Len(s) : Char(s, k) \in SpaceSet
    IN  IF b > e THEN "" ELSE SubSeq(s, b, e)

RECURSIVE SplitFrom(_, _)
SplitFrom(s, i) ==
    LET b == SkipIn(s, i, SpaceSet)
        e == SkipNotIn(s, b, SpaceSet)
    IN  IF b > Len(s) THEN <<>>
        ELSE <<SubSeq(s, b, e - 1)>> \o SplitFrom(s, e)

\* str.split() with no argument: the maximal runs of non-whitespace
StrSplit(s) == SplitFrom(s, 1)

RECURSIVE JoinSpace(_)
\* ' '.join(words)
JoinSpace(ws) ==
    IF ws = <<>> THEN ""
    ELSE IF Len(ws) = 1 THEN ws[1]
    ELSE ws[1] \o " " \o JoinSpace(Tail(ws))

\* sub in s (substring containment)
Contains(s, sub) ==
    \E i \in 1..(Len(s) - Len(sub) + 1) : SubSeq(s, i, i + Len(sub) - 1) = sub

StartsAt(s, i, sub) ==
    /\ i + Len(sub) - 1 <= Len(s)
    /\ SubSeq(s, i, i + Len(sub) - 1) = sub

(***************************************************************************)
(* The URL pattern shared by preprocess_text and extract_url_features      *)
(***************************************************************************)
\* the characters one step of the repeated group accepts: letters, digits,
\* the range $-_ (0x24..0x5F), @ . & + and ! * \ ( ) ,
UrlCharSet ==
    LowerSet \cup UpperSet \cup DigitSet \cup CharSet("$%&'()*+,-./:;<=>?@[\\]^_!")

\* w is the (at most) eight characters at i, folded to lower case under
\* re.IGNORECASE
UrlPrefixEndOf(w, i) ==
    IF StartsAt(w, 1, "https://") THEN i + 8
    ELSE IF StartsAt(w, 1, "http://") THEN i + 7
    ELSE 0

\* position just after "http", "s"? and "://" when they start at i, else 0;
\* icase is re.IGNORECASE
UrlPrefixEnd(s, i, icase) ==
    UrlPrefixEndOf(IF icase THEN StrLower(SubSeq(s, i, Min(i + 7, Len(s))))
                   ELSE SubSeq(s, i, Min(i + 7, Len(s))), i)

\* the repeated group (...)+ from position b on: index of its last
\* character, 0 when the prefix did not match (b = 0) or the group is empty
UrlGroupEnd(s, b) ==
    IF b = 0 THEN 0
    ELSE LET e == SkipIn(s, b, UrlCharSet)
         IN  IF e > b THEN e - 1 ELSE 0

\* index of the last character of the match of url_pattern starting at i, or 0
UrlMatchEnd(s, i, icase) == UrlGroupEnd(s, UrlPrefixEnd(s, i, icase))

\* the least element of a set of positions, 0 for the empty set
FirstOrZero(S) == IF S = {} THEN 0 ELSE CHOOSE j \in S : \A k \in S : j <= k

\* the first position at or after i where url_pattern matches, or 0
NextUrlStart(s, i, icase) ==
    FirstOrZero({j \in i..Len(s) : UrlMatchEnd(s, j, icase) > 0})

\* the span <<b, e>> of the match that starts at b (<<0, 0>> when b = 0)
UrlSpanAt(s, b, icase) == <<b, IF b = 0 THEN 0 ELSE UrlMatchEnd(s, b, icase)>>

\* the span of the first match at or after i: the scan of findall and sub
NextUrlSpan(s, i, icase) == UrlSpanAt(s, NextUrlStart(s, i, icase), icase)

RECURSIVE FindUrlsFrom(_, _, _)
RECURSIVE FindUrlsSpan(_, _, _)
\* the match at span m, then the matches after it
FindUrlsSpan(s, m, icase) ==
    IF m[1] = 0 THEN <<>>
    ELSE <<SubSeq(s, m[1], m[2])>> \o FindUrlsFrom(s, m[2] + 1, icase)

FindUrlsFrom(s, i, icase) == FindUrlsSpan(s, NextUrlSpan(s, i, icase), icase)

\* re.findall(url_pattern, text, re.IGNORECASE)
FindUrls(s) == FindUrlsFrom(s, 1, TRUE)

RECURSIVE SubUrlsFrom(_, _)
RECURSIVE SubUrlsSpan(_, _, _)
\* the text from i up to the match at span m, a space for the match, then
\* the rest
SubUrlsSpan(s, i, m) ==
    IF m[1] = 0 THEN SubSeq(s, i, Len(s))
    ELSE SubSeq(s, i, m[1] - 1) \o " " \o SubUrlsFrom(s, m[2] + 1)

SubUrlsFrom(s, i) == SubUrlsSpan(s, i, NextUrlSpan(s, i, FALSE))

\* re.sub(url_pattern, ' ', text)
SubUrls(s) == SubUrlsFrom(s, 1)

(***************************************************************************)
(* preprocess_text                                                         *)
(***************************************************************************)
\* \S+@\S+ matches a whole run of non-whitespace iff the run has an @ that
\* is neither its first nor its last character
IsEmailRun(w) == \E j \in 2..(Len(w) - 1) : Char(w, j) = "@"

RECURSIVE SubEmailsFrom(_, _)
SubEmailsFrom(s, i) ==
    LET b == SkipIn(s, i, SpaceSet)
        e == SkipNotIn(s, b, SpaceSet)
        w == SubSeq(s, b, e - 1)
    IN  IF i > Len(s) THEN ""
        ELSE SubSeq(s, i, b - 1) \o (IF IsEmailRun(w) THEN " " ELSE w) \o SubEmailsFrom(s, e)

\* re.sub(r'\S+@\S+', ' ', text)
SubEmails(s) == SubEmailsFrom(s, 1)

RECURSIVE SubSpecial(_)
\* re.sub(r'[^a-zA-Z0-9\s]', ' ', text)
SubSpecial(s) ==
    IF Len(s) = 0 THEN ""
    ELSE IF Len(s) = 1
         THEN (IF s \in LowerSet \cup UpperSet \cup DigitSet \cup SpaceSet THEN s ELSE " ")
    ELSE SubSpecial(SubSeq(s, 1, Len(s) \div 2)) \o SubSpecial(SubSeq(s, Len(s) \div 2 + 1, Len(s)))

\* stopwords.words('english') of NLTK, the entries made of letters only
ENGLISH_STOPWORDS == {
    "i", "me", "my", "myself", "we", "our", "ours", "ourselves", "you", "your",
    "yours", "yourself", "yourselves", "he", "him", "his", "himself", "she",
    "her", "hers", "herself", "it", "its", "itself", "they", "them", "their",
    "theirs", "themselves", "what", "which", "who", "whom", "this", "that",
    "these", "those", "am", "is", "are", "was", "were", "be", "been", "being",
    "have", "has", "had", "having", "do", "does", "did", "doing", "a", "an",
    "the", "and", "but", "if", "or", "because", "as", "until", "while", "of",
    "at", "by", "for", "with", "about", "against", "between", "into",
    "through", "during", "before", "after", "above", "below", "to", "from",
    "up", "down", "in", "out", "on", "off", "over", "under", "again",
    "further", "then", "once", "here", "there", "when", "where", "why", "how",
    "all", "any", "both", "each", "few", "more", "most", "other", "some",
    "such", "no", "nor", "not", "only", "own", "same", "so", "than", "too",
    "very", "s", "t", "can", "will", "just", "don", "should", "now", "d", "ll",
    "m", "o", "re", "ve", "y", "ain", "aren", "couldn", "didn", "doesn",
    "hadn", "hasn", "haven", "isn", "ma", "mightn", "mustn", "needn", "shan",
    "shouldn", "wasn", "weren", "won", "wouldn" }

\* the contractions the Treebank tokenizer behind word_tokenize splits in a
\* text of letters, digits and single spaces: token -> length of its first part
CONTRACTIONS ==
    [w \in {"cannot", "gimme", "gonna", "gotta", "lemme", "wanna"} |-> 3]

RECURSIVE SplitContractions(_)
SplitContractions(ws) ==
    IF ws = <<>> THEN <<>>
    ELSE (IF ws[1] \in DOMAIN CONTRACTIONS
          THEN <<SubSeq(ws[1], 1, 3), SubSeq(ws[1], 4, Len(ws[1]))>>
          ELSE <<ws[1]>>) \o SplitContractions(Tail(ws))

\* word_tokenize(text) on the text preprocess_text hands it
word_tokenize(s) == SplitContractions(StrSplit(s))

\* [word for word in tokens if word not in self.stop_words and len(word) > 2]
FilterTokens(ws, stop_words) ==
    SelectSeq(ws, LAMBDA w : w \notin stop_words /\ Len(w) > 2)

\* the string before tokenization: steps lower .. ' '.join(text.split())
PreTokenized(s) == JoinSpace(StrSplit(SubSpecial(SubEmails(SubUrls(StrLower(s))))))

\* variant: a tokenizer failure empties the text
preprocess_text_noFallback(s, stop_words, tokOK) ==
    IF StrStrip(s) = "" THEN ""
    ELSE IF tokOK
         THEN JoinSpace(FilterTokens(word_tokenize(PreTokenized(s)), stop_words))
         ELSE ""

\* preprocess_text(text) of a detector whose stop word set is stop_words;
\* tokOK is FALSE when word_tokenize raises (the except: pass branch)
preprocess_text(s, stop_words, tokOK) ==
    IF StrStrip(s) = "" THEN ""
    ELSE IF tokOK
         THEN JoinSpace(FilterTokens(word_tokenize(PreTokenized(s)), stop_words))
         ELSE PreTokenized(s)

(***************************************************************************)
(* extract_url_features                                                    *)
(***************************************************************************)
\* urlparse(url) raises ValueError("Invalid IPv6 URL") when the netloc has
\* one square bracket without the other
UnbalancedBrackets(netloc) == Contains(netloc, "[") # Contains(netloc, "]")

\* the part of url from position b up to the first / ? or #
UrlNetlocFrom(url, b) == SubSeq(url, b, SkipNotIn(url, b, {"/", "?", "#"}) - 1)

\* urlparse(url).netloc for a match of url_pattern: what follows "//" up to
\* the first / ? or #
UrlNetloc(url) == UrlNetlocFrom(url, UrlPrefixEnd(url, 1, TRUE))

UrlParseRaises(url) == UnbalancedBrackets(UrlNetloc(url))

\* r'\d+\.\d+\.\d+\.\d+' matched at position i of d
DottedQuadAt(d, i) ==
    LET e1 == SkipIn(d, i, DigitSet)
        e2 == SkipIn(d, e1 + 1, DigitSet)
        e3 == SkipIn(d, e2 + 1, DigitSet)
    IN  /\ e1 > i /\ StartsAt(d, e1, ".")
        /\ e2 > e1 + 1 /\ StartsAt(d, e2, ".")
        /\ e3 > e2 + 1 /\ StartsAt(d, e3, ".")
        /\ e3 + 1 <= Len(d) /\ Char(d, e3 + 1) \in DigitSet

IpPattern(d) == \E i \in 1..Len(d) : DottedQuadAt(d, i)

EndsWith(d, suf) == Len(d) >= Len(suf) /\ SubSeq(d, Len(d) - Len(suf) + 1, Len(d)) = suf

\* r'\.(tk|ml|ga|cf)$'
TldPattern(d) == \E t \in {".tk", ".ml", ".ga", ".cf"} : EndsWith(d, t)

\* r'(bit\.ly|tinyurl|t\.co|goo\.gl|ow\.ly)'
ShortenerPattern(d) ==
    \E t \in {"bit.ly", "tinyurl", "t.co", "goo.gl", "ow.ly"} : Contains(d, t)

\* r'(secure|verify|update|confirm|account).*\.(com|net|org)'
KeywordPattern(d) ==
    \E k \in {"secure", "verify", "update", "confirm", "account"} :
        \E i \in 1..Len(d) :
            /\ StartsAt(d, i, k)
            /\ \E j \in (i + Len(k))..Len(d) :
                   \E t \in {".com", ".net", ".org"} : StartsAt(d, j, t)

\* r'(paypaI|arnazon|googIe|microsooft|appIe)', case-sensitive
TypoPattern(d) ==
    \E t \in {"paypaI", "arnazon", "googIe", "microsooft", "appIe"} : Contains(d, t)

\* for pattern in suspicious_patterns: if re.search(pattern, domain)
MatchesSuspicious(d) ==
    IpPattern(d) \/ TldPattern(d) \/ ShortenerPattern(d) \/ KeywordPattern(d) \/ TypoPattern(d)

\* domain = parsed.netloc.lower()
UrlDomain(url) == StrLower(UrlNetloc(url))

\* variant: no break, one append per matching pattern
AppendIfSuspicious_perPattern(domain) ==
    (IF IpPattern(domain) THEN <<domain>> ELSE <<>>)
    \o (IF TldPattern(domain) THEN <<domain>> ELSE <<>>)
    \o (IF ShortenerPattern(domain) THEN <<domain>> ELSE <<>>)
    \o (IF KeywordPattern(domain) THEN <<domain>> ELSE <<>>)
    \o (IF TypoPattern(domain) THEN <<domain>> ELSE <<>>)

\* if re.search(pattern, domain): suspicious_domains.append(domain); break
AppendIfSuspicious(domain) == IF MatchesSuspicious(domain) THEN <<domain>> ELSE <<>>

\* variant: the netloc is taken without the check that makes urlparse raise
DomainsOfUrl_unchecked(url) == AppendIfSuspicious(UrlDomain(url))

\* one turn of the loop: what it appends for url; a url that fails to parse
\* is skipped (except: continue)
DomainsOfUrl(url) ==
    IF UrlParseRaises(url) THEN <<>> ELSE AppendIfSuspicious(UrlDomain(url))

RECURSIVE SuspiciousDomains(_)
\* the loop over urls
SuspiciousDomains(urls) ==
    IF urls = <<>> THEN <<>>
    ELSE DomainsOfUrl(urls[1]) \o SuspiciousDomains(Tail(urls))

\* variant: the flag is set for a URL that contains a risky TLD anywhere
HasSuspiciousUrl_looseTld(urls) ==
    \E i \in 1..Len(urls) :
        /\ ~UrlParseRaises(urls[i])
        /\ \/ MatchesSuspicious(UrlDomain(urls[i]))
           \/ \E tld \in {".tk", ".ml", ".ga", ".cf"} : Contains(UrlDomain(urls[i]), tld)

\* features['has_suspicious_url'] after the loop: False before it, set to
\* True in a turn whose url parses and whose domain matches a pattern
HasSuspiciousUrl(urls) ==
    \E i \in 1..Len(urls) :
        ~UrlParseRaises(urls[i]) /\ MatchesSuspicious(UrlDomain(urls[i]))

\* the features dict built from the loop's results
UrlFeatures(url_count, has_suspicious_url, suspicious_domains) ==
    [url_count |-> url_count,
     has_suspicious_url |-> has_suspicious_url,
     suspicious_domains |-> suspicious_domains]

UrlFeaturesOf(urls) == UrlFeatures(Len(urls), HasSuspiciousUrl(urls), SuspiciousDomains(urls))

extract_url_features(text) == UrlFeaturesOf(FindUrls(text))

(***************************************************************************)
(* extract_text_features                                                   *)
(***************************************************************************)
urgency_words ==
    {"urgent", "immediate", "expires", "limited time", "act now", "hurry",
     "final notice", "last chance", "expires today", "deadline"}

financial_words ==
    {"money", "prize", "reward", "cash", "free", "win", "winner", "lottery",
     "million", "thousand", "dollars", "$", "payment", "refund"}

threat_words ==
    {"suspend", "block", "close", "terminated", "legal action", "arrest",
     "fine", "penalty", "lawsuit", "court", "police", "investigation"}

action_words ==
    {"click", "verify", "confirm", "update", "download", "install",
     "provide", "send", "submit", "enter", "login", "sign in"}

\* variant: a keyword counts only when it is a whole whitespace-separated
\* word of the text
KeywordScore_wholeWords(words, text_lower) ==
    Cardinality({w \in words :
        \E i \in 1..Len(StrSplit(text_lower)) : StrSplit(text_lower)[i] = w})

\* variant: every occurrence of a keyword counts
KeywordScore_occurrences(words, text_lower) ==
    Cardinality({<<w, i>> \in words \X (1..Len(text_lower)) :
        SubSeq(text_lower, i, Min(Len(text_lower), i + Len(w) - 1)) = w})

\* sum(1 for word in words if word in text_lower)
KeywordScore(words, text_lower) == Cardinality({w \in words : Contains(text_lower, w)})

\* len(re.findall(r'[!?]{2,}', text)): the maximal runs of ! and ? of length >= 2
ExcessivePunctuation(text) ==
    Cardinality({i \in 1..Len(text) :
        /\ Char(text, i) \in {"!", "?"}
        /\ (i = 1 \/ Char(text, i - 1) \notin {"!", "?"})
        /\ i < Len(text) /\ Char(text, i + 1) \in {"!", "?"}})

\* w.isupper(): some cased character and no lowercase one
IsUpper(w) ==
    /\ \E i \in 1..Len(w) : Char(w, i) \in UpperSet
    /\ \A i \in 1..Len(w) : Char(w, i) \notin LowerSet

extract_text_features(text) ==
    LET text_lower == StrLower(text)
        words == StrSplit(text)
    IN  [urgency_score |-> KeywordScore(urgency_words, text_lower),
         financial_score |-> KeywordScore(financial_words, text_lower),
         threat_score |-> KeywordScore(threat_words, text_lower),
         action_score |-> KeywordScore(action_words, text_lower),
         excessive_punctuation |-> ExcessivePunctuation(text),
         caps_words_count |-> Len(SelectSeq(words, LAMBDA w : IsUpper(w) /\ Len(w) > 2)),
         text_length |-> Len(text),
         word_count |-> Len(words)]

(***************************************************************************)
(* analyze_features                                                        *)
(***************************************************************************)
\* variant: the sum is not clamped
SuspicionScore_unclamped(f) ==
    f.urgency_score * 20 + f.financial_score * 15 + f.threat_score * 25
    + f.action_score * 10 + (IF f.has_suspicious_url THEN 1 ELSE 0) * 30

\* min(sum(suspicion_factors), 1.0), in hundredths
SuspicionScore(f) ==
    Min(f.urgency_score * 20 + f.financial_score * 15 + f.threat_score * 25
        + f.action_score * 10 + (IF f.has_suspicious_url THEN 1 ELSE 0) * 30, 100)

\* all_features['suspicion_score'] = min(sum(suspicion_factors), 1.0)
WithSuspicionScore(f) ==
    [k \in DOMAIN f \cup {"suspicion_score"} |->
        IF k = "suspicion_score" THEN SuspicionScore(f) ELSE f[k]]

\* {**url_features, **text_features}
MergeDicts(u, t) ==
    [k \in DOMAIN u \cup DOMAIN t |-> IF k \in DOMAIN t THEN t[k] ELSE u[k]]

analyze_features(text) ==
    WithSuspicionScore(MergeDicts(extract_url_features(text), extract_text_features(text)))

(***************************************************************************)
(* The values callers pass as text                                         *)
(***************************************************************************)
LongText ==
    "FINAL NOTICE: confirm your PayPal account at HTTP://paypaI-secure.com:8080/login "
    \o "or see https://bit.ly/x1, http://evil.tk. Act now!!"

\* more cue words than the clamp of the suspicion score lets through
ManyCuesText ==
    "URGENT final notice: you win a free prize, verify now or we suspend and close your account"

\* a URL whose netloc urlparse rejects (a "[" without its "]")
BadUrlText == "Please verify your account at http://[evil.tk/login today"

\* a typosquat host with a capital I, and a risky TLD written in capitals
\* with a port
TypoPortText == "Pay at http://paypaI.com/ or http://EVIL.TK:8080/x"

\* a host that matches two patterns, then the same host twice
RepeatedHostText == "see http://secure-pay.com.tk/a http://evil.tk/b http://evil.tk/c"

\* the scenario text of the specification
UrgentText == "Urgent! Your account will be suspended. Click here to verify immediately."

\* max_length of PhishingPredictionRequest.text
MaxTextLength == 10000

\* s repeated n times
RECURSIVE Repeat(_, _)
Repeat(s, n) ==
    IF n = 0 THEN ""
    ELSE IF n % 2 = 1 THEN s \o Repeat(s \o s, n \div 2)
    ELSE Repeat(s \o s, n \div 2)

\* one character more than the API accepts in a single request
OversizedText == Repeat("a", MaxTextLength + 1)

\* a whitespace-only text of more than 100 characters
LongBlankText == Repeat(" ", 101)

Texts ==
    {"", "   ", " \t\n",
     "http://192.168.1.5/login",
     "!!! ???",
     "I cannot",
     UrgentText,
     "Thank you for your purchase. Your order will arrive in 3-5 days.",
     "Win a FREE prize!! Click http://evil.tk/claim now",
     "Meeting moved to Monday",
     LongText, ManyCuesText, BadUrlText, TypoPortText, RepeatedHostText,
     OversizedText, LongBlankText,
     "See http://microsoft.com/download"}

Str(s) == [type |-> "str", val |-> s]

\* None, an int and a list, written as their repr
NonStrings ==
    {[type |-> "NoneType", val |-> "None"],
     [type |-> "int", val |-> "42"],
     [type |-> "list", val |-> "[]"]}

Inputs == {Str(s) : s \in Texts} \cup NonStrings

\* isinstance(text, str)
IsStr(x) == x.type = "str"

\* len(text) is defined (str, list), else TypeError
HasLen(x) == x.type \in {"str", "list"}

\* len(text)
PyLen(x) == IF IsStr(x) THEN Len(x.val) ELSE 0

\* preprocess_text and analyze_features are pure functions of the text (and
\* of the stop word set and the tokenizer's availability): they are
\* evaluated once per input
PreprocessTable ==
    [t \in Texts |-> [sw \in {"english", "empty"} |-> [tokOK \in BOOLEAN |->
        preprocess_text(t, IF sw = "english" THEN ENGLISH_STOPWORDS ELSE {}, tokOK)]]]

FeaturesTable == [t \in Texts |-> analyze_features(t)]

(***************************************************************************)
(* The classifier: the TF-IDF + LogisticRegression pipeline that           *)
(* train_model.py saves, or any object joblib.load returns                 *)
(***************************************************************************)
PhishTerms == {"urgent", "verify", "account", "suspended", "click", "prize", "free", "confirm"}

LegitTerms == {"thank", "order", "purchase", "arrive", "days", "meeting"}

\* the bounds of the intercepts of the models considered
MaxIntercept == 1

Intercepts == (0 - MaxIntercept)..MaxIntercept

\* a model that works, one whose predict raises, one whose predict_proba
\* raises, and one fitted on a single class, whose predict_proba returns one
\* column
Models ==
    {[kind |-> "Pipeline", intercept |-> b, faulty |-> "none"] : b \in Intercepts}
    \cup {[kind |-> "Pipeline", intercept |-> 0, faulty |-> f] :
             f \in {"predict", "predict_proba", "one_class"}}

\* joblib.load may also return a falsy object such as None
NoneModel == [kind |-> "NoneType"]

\* decision_function of the pipeline on one processed text
Decision(m, processed) ==
    LET ws == StrSplit(processed)
        toks == {ws[i] : i \in 1..Len(ws)}
    IN  m.intercept + Cardinality(toks \cap PhishTerms) - Cardinality(toks \cap LegitTerms)

\* 100 * expit(d), rounded
Expit(d) ==
    IF d <= -5 THEN 1 ELSE IF d >= 5 THEN 99
    ELSE <<2, 5, 12, 27, 50, 73, 88, 95, 98>>[d + 5]

\* model.predict([processed_text])[0]: class 1 iff the decision value is > 0
ModelPredict(m, processed) ==
    IF "proba" \in DOMAIN m THEN (IF m.proba > 50 THEN 1 ELSE 0)
    ELSE IF Decision(m, processed) > 0 THEN 1 ELSE 0

\* model.predict_proba([processed_text])[0] = [1 - p, p]
ModelPredictProba(m, processed) ==
    IF "proba" \in DOMAIN m THEN <<100 - m.proba, m.proba>>
    ELSE <<100 - Expit(Decision(m, processed)), Expit(Decision(m, processed))>>

(***************************************************************************)
(* _calculate_risk_level                                                   *)
(***************************************************************************)
RiskLevels == <<"very_low", "low", "medium", "high">>

\* position of a level in very_low < low < medium < high
Rank(l) == CHOOSE i \in 1..4 : RiskLevels[i] = l

\* variant: the thresholds are exclusive
BaseRisk_exclusive(phishing_prob) ==
    IF phishing_prob > 80 THEN "high"
    ELSE IF phishing_prob > 60 THEN "medium"
    ELSE IF phishing_prob > 40 THEN "low"
    ELSE "very_low"

\* the if/elif chain on phishing_prob
BaseRisk(phishing_prob) ==
    IF phishing_prob >= 80 THEN "high"
    ELSE IF phishing_prob >= 60 THEN "medium"
    ELSE IF phishing_prob >= 40 THEN "low"
    ELSE "very_low"

\* variant: strong suspicion jumps to the top level
Escalate_toHigh(base_risk, suspicion_score) ==
    IF suspicion_score >= 70 /\ base_risk \in {"low", "very_low"} THEN "high"
    ELSE IF suspicion_score >= 50 /\ base_risk = "very_low" THEN "low"
    ELSE base_risk

\* variant: the second branch forgets to test the base level
Escalate_noBaseTest(base_risk, suspicion_score) ==
    IF suspicion_score >= 70 /\ base_risk \in {"low", "very_low"} THEN "medium"
    ELSE IF suspicion_score >= 50 THEN "low"
    ELSE base_risk

\* variant: a base of low is raised from 0.5 on
Escalate_lowFromHalf(base_risk, suspicion_score) ==
    IF suspicion_score >= 70 /\ base_risk \in {"low", "very_low"} THEN "medium"
    ELSE IF suspicion_score >= 50 /\ base_risk = "very_low" THEN "low"
    ELSE IF suspicion_score >= 50 /\ base_risk = "low" THEN "medium"
    ELSE base_risk

\* variant: strong suspicion raises a base of very_low only
Escalate_veryLowOnly(base_risk, suspicion_score) ==
    IF suspicion_score >= 70 /\ base_risk = "very_low" THEN "medium"
    ELSE IF suspicion_score >= 50 /\ base_risk = "very_low" THEN "low"
    ELSE base_risk

\* the adjustment by suspicion_score
Escalate(base_risk, suspicion_score) ==
    IF suspicion_score >= 70 /\ base_risk \in {"low", "very_low"} THEN "medium"
    ELSE IF suspicion_score >= 50 /\ base_risk = "very_low" THEN "low"
    ELSE base_risk

\* features.get('suspicion_score', 0)
GetSuspicion(features) ==
    IF "suspicion_score" \in DOMAIN features THEN features.suspicion_score ELSE 0

calculate_risk_level(phishing_prob, features) ==
    Escalate(BaseRisk(phishing_prob), GetSuspicion(features))

(***************************************************************************)
(* predict                                                                 *)
(***************************************************************************)
\* the empty dict {}
EmptyDict == [k \in {} |-> 0]

\* text[:100] + "..." if len(text) > 100 else text
RawText(x) == IF PyLen(x) > 100 THEN SubSeq(x.val, 1, 100) \o "..." ELSE x.val

Returned(v) == [kind |-> "return", value |-> v]

Raised(e) == [kind |-> "raise", exc |-> e]

\* variant: the features are computed from the preprocessed (empty) text
ShortCircuitResult_processedFeatures(x) ==
    [prediction |-> "legitimate",
     probability |-> [phishing |-> 10, legitimate |-> 90],
     confidence |-> 90,
     features |-> FeaturesTable[""],
     raw_text |-> RawText(x),
     message |-> "Text appears empty after preprocessing"]

\* the early return for a text that is empty after preprocessing
ShortCircuitResult(x) ==
    [prediction |-> "legitimate",
     probability |-> [phishing |-> 10, legitimate |-> 90],
     confidence |-> 90,
     features |-> FeaturesTable[x.val],
     raw_text |-> RawText(x),
     message |-> "Text appears empty after preprocessing"]

\* variant: confidence is the phishing probability instead of the maximum
NormalResult_phishingConfidence(x, prediction, probabilities, features) ==
    [prediction |-> IF prediction = 1 THEN "phishing" ELSE "legitimate",
     probability |-> [legitimate |-> probabilities[1], phishing |-> probabilities[2]],
     confidence |-> probabilities[2],
     features |-> features,
     raw_text |-> RawText(x),
     risk_level |-> calculate_risk_level(probabilities[2], features)]

\* variant: the label test is inverted
NormalResult_invertedLabel(x, prediction, probabilities, features) ==
    [prediction |-> IF prediction = 0 THEN "phishing" ELSE "legitimate",
     probability |-> [legitimate |-> probabilities[1], phishing |-> probabilities[2]],
     confidence |-> Max(probabilities[1], probabilities[2]),
     features |-> features,
     raw_text |-> RawText(x),
     risk_level |-> calculate_risk_level(probabilities[2], features)]

\* the result dict of the normal path
NormalResult(x, prediction, probabilities, features) ==
    [prediction |-> IF prediction = 1 THEN "phishing" ELSE "legitimate",
     probability |-> [legitimate |-> probabilities[1], phishing |-> probabilities[2]],
     confidence |-> Max(probabilities[1], probabilities[2]),
     features |-> features,
     raw_text |-> RawText(x),
     risk_level |-> calculate_risk_level(probabilities[2], features)]

\* variant: the error dict reports the larger probability as its confidence
ErrorResult_maxConfidence(x, e) ==
    [error |-> e,
     prediction |-> "unknown",
     probability |-> [phishing |-> 50, legitimate |-> 50],
     confidence |-> 50,
     features |-> EmptyDict,
     raw_text |-> RawText(x)]

\* the dict the except clause builds
ErrorResult(x, e) ==
    [error |-> e,
     prediction |-> "unknown",
     probability |-> [phishing |-> 50, legitimate |-> 50],
     confidence |-> 0,
     features |-> EmptyDict,
     raw_text |-> RawText(x)]

\* the try block from "if not processed_text" on: model.predict, then
\* model.predict_proba, then analyze_features, then the result dict, where
\* probabilities[1] raises IndexError on a single column
PredictProcessed(self, x, processed_text) ==
    IF processed_text = "" THEN Returned(ShortCircuitResult(x))
    ELSE IF self.model.faulty = "predict" THEN Raised("predict failed")
    ELSE IF self.model.faulty = "predict_proba" THEN Raised("predict_proba failed")
    ELSE IF self.model.faulty = "one_class" THEN Raised("IndexError")
    ELSE Returned(NormalResult(x, ModelPredict(self.model, processed_text),
                               ModelPredictProba(self.model, processed_text),
                               FeaturesTable[x.val]))

\* the body of the try block: what it returns, or the exception it raises.
\* tokOK is FALSE when word_tokenize raises inside preprocess_text.
PredictTry(self, x, tokOK) ==
    IF self.model.kind = "NoneType" THEN Raised("Model not loaded")
    ELSE IF ~IsStr(x) \/ StrStrip(x.val) = ""
         THEN Raised("Invalid input: text cannot be empty")
    ELSE PredictProcessed(self, x, PreprocessTable[x.val][self.stop_words][tokOK])

\* the pipeline steps one call of predict runs, in the order of the calls
\* and up to the one that raises: none if the model is missing or the text
\* is rejected
PredictSteps(self, x, tokOK) ==
    IF self.model.kind = "NoneType" THEN <<>>
    ELSE IF ~IsStr(x) \/ StrStrip(x.val) = "" THEN <<>>
    ELSE IF PreprocessTable[x.val][self.stop_words][tokOK] = ""
         THEN <<"preprocess_text", "analyze_features">>
    ELSE IF self.model.faulty = "predict" THEN <<"preprocess_text", "model.predict">>
    ELSE IF self.model.faulty = "predict_proba"
         THEN <<"preprocess_text", "model.predict", "model.predict_proba">>
    ELSE <<"preprocess_text", "model.predict", "model.predict_proba", "analyze_features">>

\* variant: the handler lets the exception through
PredictExcept_reraise(x, e) == Raised(e)

\* except Exception as e: the handler evaluates len(text), which raises
\* TypeError for a value without a length
PredictExcept(x, e) ==
    IF HasLen(x) THEN Returned(ErrorResult(x, e)) ELSE Raised("TypeError")

\* try ... except Exception: t is how the try block ended
TryExcept(x, t) == IF t.kind = "raise" THEN PredictExcept(x, t.exc) ELSE t

predict(self, x, tokOK) == TryExcept(x, PredictTry(self, x, tokOK))

(***************************************************************************)
(* The module-level singleton and its callers                              *)
(***************************************************************************)
\* bound on the number of load_model runs explored
MaxLoads == 2

NoDetector == [kind |-> "NoneType"]

FileStates == {[kind |-> "missing"], [kind |-> "corrupt"], NoneModel} \cup Models

\* load_model raises: FileNotFoundError if the file is missing, whatever
\* joblib.load raises if it cannot be read
LoadRaises(file) == file.kind \in {"missing", "corrupt"}

LoadError(file) == IF file.kind = "missing" THEN "FileNotFoundError" ELSE "LoadError"

\* PhishingDetector(): load_model(), then _setup_nltk(); sw tells whether
\* stopwords.words('english') was available
NewDetector(file, sw) ==
    [kind |-> "PhishingDetector", model |-> file,
     stop_words |-> IF sw THEN "english" ELSE "empty"]

\* the detectors get_detector can create
Detectors == {NewDetector(f, sw) : f \in {NoneModel} \cup Models, sw \in BOOLEAN}

\* predict is a pure function of the detector, the text and the tokenizer's
\* availability: it is evaluated once per combination
PredictTable ==
    [self \in Detectors |-> [x \in Inputs |-> [tokOK \in BOOLEAN |-> predict(self, x, tokOK)]]]

\* bound on the length of the lists handed to batch_predict
MaxBatch == 2

\* the elements of those lists: a text that reaches the model, a blank
\* text and None
BatchInputs ==
    {Str("Meeting moved to Monday"), Str("   "), [type |-> "NoneType", val |-> "None"]}

RECURSIVE SeqsOfLen(_, _)
SeqsOfLen(S, n) ==
    IF n = 0 THEN {<<>>}
    ELSE {Append(q, x) : q \in SeqsOfLen(S, n - 1), x \in S}

BatchLists == UNION {SeqsOfLen(BatchInputs, n) : n \in 1..MaxBatch}

RECURSIVE batch_predict_loop(_, _, _, _)
\* variant: results.insert(0, result)
BatchAppend_prepend(self, rest, tokOK, results, result) ==
    IF result.kind = "raise" THEN result
    ELSE batch_predict_loop(self, rest, tokOK, <<result.value>> \o results)

\* result = self.predict(text); results.append(result): an exception of
\* predict leaves the loop and batch_predict
BatchAppend(self, rest, tokOK, results, result) ==
    IF result.kind = "raise" THEN result
    ELSE batch_predict_loop(self, rest, tokOK, Append(results, result.value))

\* for text in texts: ...; return results
batch_predict_loop(self, texts, tokOK, results) ==
    IF texts = <<>> THEN Returned(results)
    ELSE BatchAppend(self, Tail(texts), tokOK, results,
                     PredictTable[self][Head(texts)][tokOK])

batch_predict(self, texts, tokOK) == batch_predict_loop(self, texts, tokOK, <<>>)

TypeOK ==
    /\ modelFile \in FileStates
    /\ loadCount \in 0..(MaxLoads + 1)
    /\ loadFailed \in BOOLEAN
    /\ detector.kind \in {"NoneType", "PhishingDetector"}
    /\ outcome.kind \in {"none", "return", "raise"}

Init ==
    /\ modelFile \in FileStates
    /\ detector = NoDetector
    /\ loadCount = 0
    /\ loadFailed = FALSE
    /\ call = [op |-> "none"]
    /\ outcome = [kind |-> "none"]
    /\ riskIn = <<0, 0>>
    /\ riskOut = "pending"
    /\ earlier = [kind |-> "none"]
    /\ threads = <<>>

\* get_detector(), as a step of the state: the instance is created and
\* assigned only if the constructor returns
GetDetectorStep ==
    IF detector.kind # "NoneType"
    THEN UNCHANGED <<detector, loadCount, loadFailed>>
    ELSE /\ loadCount < MaxLoads
         /\ loadCount' = loadCount + 1
         /\ IF LoadRaises(modelFile)
            THEN /\ loadFailed' = TRUE
                 /\ UNCHANGED detector
            ELSE /\ \E sw \in BOOLEAN : detector' = NewDetector(modelFile, sw)
                 /\ UNCHANGED loadFailed

\* a caller calls get_detector()
GetDetector ==
    /\ GetDetectorStep
    /\ call' = [op |-> "get_detector"]
    /\ outcome' = IF detector' = NoDetector
                  THEN [kind |-> "raise", exc |-> LoadError(modelFile), in |-> "load_model"]
                  ELSE [kind |-> "return", value |-> detector', in |-> "get_detector"]
    /\ UNCHANGED <<modelFile, riskIn, threads, riskOut, earlier>>

\* the record r with the field f set to v: used to keep, next to how a call
\* ended, the pipeline steps it ran or the identity of an object
WithField(r, f, v) == [k \in DOMAIN r \cup {f} |-> IF k = f THEN v ELSE r[k]]

\* variant: a result is kept and served again to the next call of the same
\* function
EndedIn_stale(r, f) ==
    IF outcome.kind = "return" /\ outcome.in = f THEN outcome
    ELSE [k \in DOMAIN r \cup {"in"} |-> IF k = "in" THEN f ELSE r[k]]

\* how a call ended, with the function it ended in
EndedIn(r, f) == [k \in DOMAIN r \cup {"in"} |-> IF k = "in" THEN f ELSE r[k]]

\* how detector.predict(text) ends, with the pipeline steps it ran, and how
\* detector.batch_predict(texts) ends: evaluated once per combination
PredictCallTable ==
    [self \in Detectors |-> [x \in Inputs |-> [tokOK \in BOOLEAN |->
        WithField(EndedIn(PredictTable[self][x][tokOK], "predict"),
                  "steps", PredictSteps(self, x, tokOK))]]]

BatchCallTable ==
    [self \in Detectors |-> [texts \in BatchLists |-> [tokOK \in BOOLEAN |->
        EndedIn(batch_predict(self, texts, tokOK), "batch_predict")]]]

\* predict_phishing(text): get_detector(), then detector.predict(text)
PredictPhishingCall(x, tokOK) ==
    /\ GetDetectorStep
    /\ call' = [op |-> "predict_phishing", text |-> x, tokOK |-> tokOK]
    /\ outcome' = IF detector' = NoDetector
                  THEN [kind |-> "raise", exc |-> LoadError(modelFile), in |-> "load_model"]
                  ELSE PredictCallTable[detector'][x][tokOK]
    /\ UNCHANGED <<modelFile, riskIn, threads, riskOut>>

\* a caller calls predict_phishing(text)
PredictPhishing(x, tokOK) == PredictPhishingCall(x, tokOK) /\ UNCHANGED earlier

\* get_detector(), then detector.batch_predict(texts)
BatchPredictCall(texts, tokOK) ==
    /\ GetDetectorStep
    /\ call' = [op |-> "batch_predict", texts |-> texts, tokOK |-> tokOK]
    /\ outcome' = IF detector' = NoDetector
                  THEN [kind |-> "raise", exc |-> LoadError(modelFile), in |-> "load_model"]
                  ELSE BatchCallTable[detector'][texts][tokOK]
    /\ UNCHANGED <<modelFile, riskIn, threads, riskOut>>

\* a caller calls get_detector().batch_predict(texts)
BatchPredict(texts, tokOK) == BatchPredictCall(texts, tokOK) /\ UNCHANGED earlier

\* the environment writes, replaces or removes models/phish_model.joblib
SetModelFile(f) ==
    /\ f # modelFile
    /\ modelFile' = f
    /\ UNCHANGED <<detector, loadCount, loadFailed, call, outcome, riskIn, threads, riskOut, earlier>>

\* The tokenizer's failure is explored text by text in predict_phishing (and
\* for batches in the batch endpoint and in the two-call specification);
\* the batches of this specification run with the tokenizer available.
Next ==
    \/ GetDetector
    \/ \E x \in Inputs, tokOK \in BOOLEAN : PredictPhishing(x, tokOK)
    \/ \E texts \in BatchLists : BatchPredict(texts, TRUE)
    \/ \E f \in FileStates : SetModelFile(f)

Spec == Init /\ [][Next]_vars

(***************************************************************************)
(* _calculate_risk_level called on its own, for every probability and      *)
(* every suspicion score in hundredths                                     *)
(***************************************************************************)
Hundredths == 0..100

InitRisk ==
    /\ modelFile = [kind |-> "missing"]
    /\ detector = NoDetector
    /\ loadCount = 0
    /\ loadFailed = FALSE
    /\ call = [op |-> "none"]
    /\ outcome = [kind |-> "none"]
    /\ riskIn \in Hundredths \X Hundredths
    /\ riskOut = "pending"
    /\ earlier = [kind |-> "none"]
    /\ threads = <<>>

CalcRisk ==
    /\ riskOut = "pending"
    /\ riskOut' = calculate_risk_level(riskIn[1], [suspicion_score |-> riskIn[2]])
    /\ call' = [op |-> "_calculate_risk_level"]
    /\ UNCHANGED <<modelFile, detector, loadCount, loadFailed, outcome, riskIn, threads, earlier>>

NextRisk == CalcRisk

SpecRisk == InitRisk /\ [][NextRisk]_vars

(***************************************************************************)
(* predict with a classifier of which only the outputs are known: it       *)
(* returns a fixed phishing probability, any number of hundredths          *)
(***************************************************************************)
\* the model file holds a fitted binary classifier whose predict_proba
\* gives p to class 1 and whose predict returns the class of the larger
\* probability
InitOpaque ==
    /\ modelFile \in {[kind |-> "Pipeline", proba |-> p, faulty |-> "none"] : p \in Hundredths}
    /\ detector = NoDetector
    /\ loadCount = 0
    /\ loadFailed = FALSE
    /\ call = [op |-> "none"]
    /\ outcome = [kind |-> "none"]
    /\ riskIn = <<0, 0>>
    /\ riskOut = "pending"
    /\ earlier = [kind |-> "none"]
    /\ threads = <<>>

\* the first predict_phishing(text) of the process: get_detector() loads
\* the classifier, then detector.predict(text)
PredictOpaque(x, tokOK) ==
    /\ call.op = "none"
    /\ GetDetectorStep
    /\ call' = [op |-> "predict_phishing", text |-> x, tokOK |-> tokOK]
    /\ outcome' = EndedIn(predict(detector', x, tokOK), "predict")
    /\ UNCHANGED <<modelFile, riskIn, threads, riskOut, earlier>>

NextOpaque == \E x \in Inputs, tokOK \in BOOLEAN : PredictOpaque(x, tokOK)

SpecOpaque == InitOpaque /\ [][NextOpaque]_vars

(***************************************************************************)
(* The HTTP API: the request models of models_api.py and the two phishing  *)
(* endpoints of main.py. The texts of a request are strings.               *)
(***************************************************************************)
\* max_items of BatchPhishingRequest.texts
MaxBatchItems == 50

\* an absent optional field
NoValue == [kind |-> "NoneType"]

\* PhishingPredictionRequest.text: min_length and max_length, then
\* validate_text, which rejects a blank text and returns v.strip()
ValidateText(v) ==
    IF Len(v) < 1 \/ Len(v) > MaxTextLength THEN Raised("ValidationError")
    ELSE IF StrStrip(v) = "" THEN Raised("ValidationError")
    ELSE Returned(StrStrip(v))

\* BatchPhishingRequest.texts: min_items and max_items, nothing per text
ValidateTexts(texts) ==
    IF Len(texts) < 1 \/ Len(texts) > MaxBatchItems THEN Raised("ValidationError")
    ELSE Returned(texts)

HttpError(status, detail) == [kind |-> "raise", status |-> status, exc |-> detail]

HttpOk(body) == [kind |-> "return", status |-> 200, value |-> body]

\* the texts handed to predict in a request, each with the pipeline steps
\* predict ran on it
PipelineOf(self, texts, tokOK) ==
    [i \in 1..Len(texts) |->
        [text |-> texts[i], steps |-> PredictCallTable[self][texts[i]][tokOK].steps]]

\* PhishingPredictionResponse(...) of predict_phishing_endpoint
FormatSingle(result, include_features) ==
    [prediction |-> result.prediction,
     probability |-> result.probability,
     confidence |-> result.confidence,
     risk_level |-> IF "risk_level" \in DOMAIN result THEN result.risk_level ELSE "low",
     features |-> IF include_features THEN result.features ELSE NoValue,
     raw_text |-> result.raw_text,
     message |-> IF "message" \in DOMAIN result THEN result.message ELSE NoValue]

\* predict_phishing_endpoint after result = predict_phishing(request.text)
SingleResponse(r, include_features) ==
    IF r.kind = "raise" THEN HttpError(500, "Prediction failed")
    ELSE IF "error" \in DOMAIN r.value THEN HttpError(500, r.value.error)
    ELSE HttpOk(FormatSingle(r.value, include_features))

\* predict_phishing_endpoint on a request body: v is how its validation ended
PredictEndpointOutcome(self, v, include_features, tokOK) ==
    IF v.kind = "raise" THEN WithField(HttpError(422, v.exc), "pipeline", <<>>)
    ELSE WithField(SingleResponse(PredictTable[self][Str(v.value)][tokOK], include_features),
                   "pipeline", PipelineOf(self, <<Str(v.value)>>, tokOK))

\* the entry of a batch response for a result without "error"
FormatResult(result, include_features) ==
    [prediction |-> result.prediction,
     probability |-> result.probability,
     confidence |-> result.confidence,
     risk_level |-> IF "risk_level" \in DOMAIN result THEN result.risk_level ELSE "low",
     features |-> IF include_features THEN result.features ELSE NoValue,
     raw_text |-> result.raw_text]

\* the entry of a batch response for a result with "error":
\* raw_text=request.texts[i][:100]
FormatError(text, result) ==
    [prediction |-> "unknown",
     probability |-> [legitimate |-> 50, phishing |-> 50],
     confidence |-> 0,
     risk_level |-> "low",
     raw_text |-> SubSeq(text.val, 1, Min(100, Len(text.val))),
     error |-> result.error]

\* BatchPhishingResponse(...): the formatted results, and the summary dict
\* with phishing_count and legitimate_count
BatchBody(texts, results, include_features) ==
    [results |-> [i \in 1..Len(results) |->
                    IF "error" \notin DOMAIN results[i]
                    THEN FormatResult(results[i], include_features)
                    ELSE FormatError(texts[i], results[i])],
     total_processed |-> Len(texts),
     summary |->
        [total |-> Len(texts),
         phishing |-> Cardinality({i \in 1..Len(results) :
            "error" \notin DOMAIN results[i] /\ results[i].prediction = "phishing"}),
         legitimate |-> Cardinality({i \in 1..Len(results) :
            "error" \notin DOMAIN results[i] /\ results[i].prediction # "phishing"}),
         errors |-> Len(texts) - Cardinality({i \in 1..Len(results) :
            "error" \notin DOMAIN results[i]})]]

\* batch_predict_phishing after results = detector.batch_predict(request.texts)
BatchResponse(texts, include_features, r) ==
    IF r.kind = "raise" THEN HttpError(500, "Batch prediction failed")
    ELSE HttpOk(BatchBody(texts, r.value, include_features))

\* batch_predict_phishing on a request body: v is how its validation ended
BatchEndpointOutcome(self, v, include_features, tokOK) ==
    IF v.kind = "raise" THEN WithField(HttpError(422, v.exc), "pipeline", <<>>)
    ELSE WithField(BatchResponse(v.value, include_features, batch_predict(self, v.value, tokOK)),
                   "pipeline", PipelineOf(self, v.value, tokOK))

\* the texts of the single requests: empty, blank, to be trimmed, short,
\* longer than the preview, at the size limit and beyond it
ApiTexts ==
    {"", "   ", "  Meeting moved to Monday\n", "Meeting moved to Monday", UrgentText,
     LongText, LongBlankText, OversizedText}

\* the lists of the batch requests: the empty list, one list more than
\* max_items long, and the short lists of four texts
ApiBatchLists ==
    {<<>>, [i \in 1..(MaxBatchItems + 1) |-> Str("Meeting moved to Monday")]}
    \cup UNION {SeqsOfLen({Str("Meeting moved to Monday"), Str(LongText),
                           Str(LongBlankText), Str(OversizedText)}, n) : n \in 1..MaxBatch}

\* the application after startup: lifespan has called get_detector(), and
\* the process has exited if that raised
InitApi ==
    /\ modelFile \in {NoneModel} \cup Models
    /\ \E sw \in BOOLEAN : detector = NewDetector(modelFile, sw)
    /\ loadCount = 1
    /\ loadFailed = FALSE
    /\ call = [op |-> "none"]
    /\ outcome = [kind |-> "none"]
    /\ riskIn = <<0, 0>>
    /\ riskOut = "pending"
    /\ earlier = [kind |-> "none"]
    /\ threads = <<>>

\* POST /api/phish/predict. A request leaves the detector as it is, so
\* the requests are explored from the state after startup.
PredictEndpoint(text, include_features, tokOK) ==
    /\ call.op = "none"
    /\ GetDetectorStep
    /\ call' = [op |-> "POST /api/phish/predict", text |-> Str(text),
                include_features |-> include_features, tokOK |-> tokOK]
    /\ outcome' = PredictEndpointOutcome(detector', ValidateText(text), include_features, tokOK)
    /\ UNCHANGED <<modelFile, riskIn, threads, riskOut, earlier>>

\* POST /api/phish/batch
BatchEndpoint(texts, include_features, tokOK) ==
    /\ call.op = "none"
    /\ GetDetectorStep
    /\ call' = [op |-> "POST /api/phish/batch", texts |-> texts,
                include_features |-> include_features, tokOK |-> tokOK]
    /\ outcome' = BatchEndpointOutcome(detector', ValidateTexts(texts), include_features, tokOK)
    /\ UNCHANGED <<modelFile, riskIn, threads, riskOut, earlier>>

NextApi ==
    \/ \E text \in ApiTexts, include_features \in BOOLEAN, tokOK \in BOOLEAN :
          PredictEndpoint(text, include_features, tokOK)
    \/ \E texts \in ApiBatchLists, include_features \in BOOLEAN, tokOK \in BOOLEAN :
          BatchEndpoint(texts, include_features, tokOK)

SpecApi == InitApi /\ [][NextApi]_vars

(***************************************************************************)
(* get_detector() called from several threads at once. A thread can be     *)
(* preempted between the test of _detector_instance, the construction of   *)
(* the detector, the assignment and the return.                            *)
(***************************************************************************)
\* bound on the number of threads
MaxThreads == 2

InitThreads ==
    /\ modelFile \in FileStates
    /\ detector = NoDetector
    /\ loadCount = 0
    /\ loadFailed = FALSE
    /\ call = [op |-> "none"]
    /\ outcome = [kind |-> "none"]
    /\ riskIn = <<0, 0>>
    /\ riskOut = "pending"
    /\ earlier = [kind |-> "none"]
    /\ threads = [t \in 1..MaxThreads |-> [pc |-> "call", made |-> NoDetector, got |-> NoDetector]]

\* if _detector_instance is None:
ThreadTest(t) ==
    /\ threads[t].pc = "call"
    /\ threads' = [threads EXCEPT ![t].pc =
                      IF detector.kind = "NoneType" THEN "construct" ELSE "return"]
    /\ UNCHANGED <<modelFile, detector, loadCount, loadFailed, call, outcome, riskIn,
                   riskOut, earlier>>

\* PhishingDetector(): load_model() runs; the thread leaves get_detector
\* if it raises
ThreadConstruct(t) ==
    /\ threads[t].pc = "construct"
    /\ loadCount' = loadCount + 1
    /\ IF LoadRaises(modelFile)
       THEN /\ loadFailed' = TRUE
            /\ threads' = [threads EXCEPT ![t].pc = "raised"]
       ELSE /\ UNCHANGED loadFailed
            \* the new object, with the number of the load_model run that made
            \* it as its identity
            /\ \E sw \in BOOLEAN :
                  threads' = [threads EXCEPT ![t].pc = "assign",
                      ![t].made = WithField(NewDetector(modelFile, sw), "id", loadCount + 1)]
    /\ UNCHANGED <<modelFile, detector, call, outcome, riskIn, riskOut, earlier>>

\* _detector_instance = <the new object>
ThreadAssign(t) ==
    /\ threads[t].pc = "assign"
    /\ detector' = threads[t].made
    /\ threads' = [threads EXCEPT ![t].pc = "return"]
    /\ UNCHANGED <<modelFile, loadCount, loadFailed, call, outcome, riskIn, riskOut, earlier>>

\* return _detector_instance
ThreadReturn(t) ==
    /\ threads[t].pc = "return"
    /\ threads' = [threads EXCEPT ![t].pc = "done", ![t].got = detector]
    /\ call' = [op |-> "get_detector", thread |-> t]
    /\ outcome' = [kind |-> "return", value |-> detector, in |-> "get_detector"]
    /\ UNCHANGED <<modelFile, detector, loadCount, loadFailed, riskIn, riskOut, earlier>>

NextThreads ==
    \E t \in 1..MaxThreads :
        \/ ThreadTest(t)
        \/ ThreadConstruct(t)
        \/ ThreadAssign(t)
        \/ ThreadReturn(t)

SpecThreads == InitThreads /\ [][NextThreads]_vars

(***************************************************************************)
(* extract_text_features called on its own, on a text and on the same text *)
(* with one keyword appended several times                                 *)
(***************************************************************************)
\* bound on the number of times the keyword is appended
MaxRepeat == 2

\* every keyword of the four lists, once
AllCuesText ==
    "Urgent immediate expires limited time act now hurry final notice last chance "
    \o "expires today deadline money prize reward cash free win winner lottery million "
    \o "thousand dollars $ payment refund suspend block close terminated legal action "
    \o "arrest fine penalty lawsuit court police investigation click verify confirm "
    \o "update download install provide send submit enter login sign in"

InitCues ==
    /\ modelFile = [kind |-> "missing"]
    /\ detector = NoDetector
    /\ loadCount = 0
    /\ loadFailed = FALSE
    /\ \E base \in {"Hello", "Meeting moved to Monday", UrgentText, ManyCuesText, AllCuesText},
          word \in urgency_words \cup financial_words \cup threat_words \cup action_words,
          n \in 0..MaxRepeat :
          call = [op |-> "pending", base |-> base, word |-> word, n |-> n]
    /\ outcome = [kind |-> "none"]
    /\ riskIn = <<0, 0>>
    /\ riskOut = "pending"
    /\ earlier = [kind |-> "none"]
    /\ threads = <<>>

\* extract_text_features(base) and extract_text_features(base + n * (" " + word))
ExtractCues ==
    /\ call.op = "pending"
    /\ call' = [call EXCEPT !.op = "extract_text_features"]
    /\ outcome' = [kind |-> "return",
                   value |-> extract_text_features(call.base \o Repeat(" " \o call.word, call.n)),
                   base |-> extract_text_features(call.base),
                   in |-> "extract_text_features"]
    /\ UNCHANGED <<modelFile, detector, loadCount, loadFailed, riskIn, riskOut, earlier, threads>>

NextCues == ExtractCues

SpecCues == InitCues /\ [][NextCues]_vars

(***************************************************************************)
(* The same text handed to predict_phishing twice, with other calls in     *)
(* between                                                                 *)
(***************************************************************************)
\* the call that is kept: the first one in which predict ran
PredictFirst(x, tokOK) ==
    /\ earlier.kind = "none"
    /\ PredictPhishingCall(x, tokOK)
    /\ earlier' = IF outcome'.in = "predict"
                  THEN [kind |-> "call", text |-> x, tokOK |-> tokOK,
                        detector |-> detector', outcome |-> outcome', between |-> FALSE]
                  ELSE earlier

\* a later predict_phishing call; between records a call on another text
PredictLater(x, tokOK) ==
    /\ earlier.kind = "call"
    /\ PredictPhishingCall(x, tokOK)
    /\ earlier' = [earlier EXCEPT !.between = @ \/ x # earlier.text]

\* a later batch_predict call
BatchLater(texts, tokOK) ==
    /\ earlier.kind = "call"
    /\ BatchPredictCall(texts, tokOK)
    /\ earlier' = [earlier EXCEPT !.between = TRUE]

NextTwice ==
    \/ \E x \in BatchInputs, tokOK \in BOOLEAN : PredictFirst(x, tokOK)
    \/ \E x \in BatchInputs, tokOK \in BOOLEAN : PredictLater(x, tokOK)
    \/ \E texts \in BatchLists, tokOK \in BOOLEAN : BatchLater(texts, tokOK)

SpecTwice == Init /\ [][NextTwice]_vars

(***************************************************************************)
(* Properties                                                              *)
(***************************************************************************)
\* predict ran in the last call (get_detector returned a detector)
PredictRan == call.op = "predict_phishing" /\ outcome.in = "predict"

\* a non-empty string after trimming
ValidText(x) == IsStr(x) /\ StrStrip(x.val) # ""

BlankText(x) == IsStr(x) /\ StrStrip(x.val) = ""

\* the detector holds a model object
ModelLoaded == detector.kind = "PhishingDetector" /\ detector.model.kind = "Pipeline"

\* the preprocessed text of the last predict call
ProcessedOfCall == PreprocessTable[call.text.val][detector.stop_words][call.tokOK]

\* the last predict call reached model.predict / model.predict_proba
ModelInvoked == PredictRan /\ ModelLoaded /\ ValidText(call.text) /\ ProcessedOfCall # ""

IsErrorResult(v) == "error" \in DOMAIN v

\* C1: predict never raises: whatever the input value (text, blank text,
\* None, a number) and whether or not the model raises, the call returns a
\* result dictionary.
C1_PredictNeverRaises == PredictRan => outcome.kind = "return"

\* C2: predict rejects empty or whitespace-only text by failing with
\* InvalidInput: the caller observes a failure, not a result.
C2_BlankFails == (PredictRan /\ BlankText(call.text)) => outcome.kind = "raise"

\* C2 (amended): for empty or whitespace-only text predict raises nothing and
\* returns the degraded result: prediction "unknown", probability 0.5/0.5,
\* confidence 0.0, empty features and an error field, which for a loaded
\* model reads "Invalid input: text cannot be empty".
C2_BlankReturnsErrorResult ==
    (PredictRan /\ BlankText(call.text)) =>
        /\ outcome.kind = "return"
        /\ IsErrorResult(outcome.value)
        /\ outcome.value.prediction = "unknown"
        /\ outcome.value.probability = [phishing |-> 50, legitimate |-> 50]
        /\ outcome.value.confidence = 0
        /\ outcome.value.features = EmptyDict
        /\ ModelLoaded => outcome.value.error = "Invalid input: text cannot be empty"

C2_Witness ==
    /\ PredictRan /\ ModelLoaded
    /\ call.text = Str("   ")
    /\ outcome.kind = "return"
    /\ outcome.value.error = "Invalid input: text cannot be empty"

\* C3: once a get_detector() call has failed to load the model, no later
\* call attempts load_model again and none yields a detector, even if the
\* model file has become available.
C3_NoReloadAfterFailure ==
    [][loadFailed => (loadCount' = loadCount /\ detector' = NoDetector)]_vars

\* C4: when the model raises in predict or predict_proba on a valid text,
\* predict returns prediction "unknown", probability 0.5/0.5, confidence 0.0
\* and an error field with the diagnostic; nothing is raised.
C4_ModelErrorGivesUnknown ==
    (ModelInvoked /\ detector.model.faulty \in {"predict", "predict_proba"}) =>
        /\ outcome.kind = "return"
        /\ outcome.value.prediction = "unknown"
        /\ outcome.value.probability = [phishing |-> 50, legitimate |-> 50]
        /\ outcome.value.confidence = 0
        /\ IsErrorResult(outcome.value)
        /\ outcome.value.error \in {"predict failed", "predict_proba failed"}

C4_Witness ==
    /\ ModelInvoked /\ detector.model.faulty = "predict_proba"
    /\ outcome.kind = "return"
    /\ outcome.value.error = "predict_proba failed"

\* C5: every result predict returns for a valid text has a risk_level field
\* with a value in {very_low, low, medium, high}: on the normal path, in the
\* short-circuit result and in the degraded "unknown" result.
C5_ResultHasRiskLevel ==
    (PredictRan /\ ValidText(call.text) /\ outcome.kind = "return") =>
        /\ "risk_level" \in DOMAIN outcome.value
        /\ outcome.value.risk_level \in {"very_low", "low", "medium", "high"}

\* C6: in every result predict returns (normal, short-circuit and error),
\* confidence = max(probability.legitimate, probability.phishing).
C6_ConfidenceIsMax ==
    (PredictRan /\ outcome.kind = "return") =>
        outcome.value.confidence =
            Max(outcome.value.probability.legitimate, outcome.value.probability.phishing)

\* C6 (amended): in every result without an error field (normal and
\* short-circuit) confidence = max(probability.legitimate,
\* probability.phishing); the error result has confidence 0.0 with both
\* probabilities 0.5.
C6_ConfidenceIsMaxUnlessError ==
    (PredictRan /\ outcome.kind = "return") =>
        IF IsErrorResult(outcome.value)
        THEN /\ outcome.value.confidence = 0
             /\ outcome.value.probability = [phishing |-> 50, legitimate |-> 50]
        ELSE outcome.value.confidence =
                 Max(outcome.value.probability.legitimate, outcome.value.probability.phishing)

C6_Witness ==
    /\ ModelInvoked /\ outcome.kind = "return"
    /\ ~IsErrorResult(outcome.value)
    /\ outcome.value.probability.phishing > outcome.value.probability.legitimate
    /\ outcome.value.confidence = outcome.value.probability.phishing

\* C7: when the normalized text is empty and the raw text is not blank,
\* predict returns prediction "legitimate", probability {legitimate 0.9,
\* phishing 0.1}, confidence 0.9, a message, and features computed from the
\* raw text; for "http://192.168.1.5/login" they have url_count = 1 and
\* has_suspicious_url = true.
C7_ShortCircuit ==
    (PredictRan /\ ModelLoaded /\ ValidText(call.text) /\ ProcessedOfCall = "") =>
        /\ outcome.kind = "return"
        /\ outcome.value.prediction = "legitimate"
        /\ outcome.value.probability = [legitimate |-> 90, phishing |-> 10]
        /\ outcome.value.confidence = 90
        /\ "message" \in DOMAIN outcome.value
        /\ outcome.value.features.text_length = Len(call.text.val)
        /\ outcome.value.features.word_count = Len(StrSplit(call.text.val))
        /\ call.text = Str("http://192.168.1.5/login") =>
               /\ outcome.value.features.url_count = 1
               /\ outcome.value.features.has_suspicious_url = TRUE

C7_Witness ==
    /\ PredictRan /\ ModelLoaded
    /\ call.text = Str("http://192.168.1.5/login")
    /\ ProcessedOfCall = ""
    /\ outcome.kind = "return"
    /\ outcome.value.prediction = "legitimate"
    /\ outcome.value.features.suspicious_domains = <<"192.168.1.5">>

\* a result of the normal path: the model was invoked and did not raise
NormalPath == ModelInvoked /\ detector.model.faulty = "none" /\ outcome.kind = "return"

\* C8: on the normal path the label is "phishing" exactly when the reported
\* probability.phishing is >= 0.5, and "legitimate" otherwise.
C8_LabelIffHalfOrMore ==
    NormalPath =>
        (outcome.value.prediction = "phishing" <=> outcome.value.probability.phishing >= 50)

\* C8 (amended): on the normal path the label is "phishing" exactly when
\* model.predict returns class 1 and "legitimate" otherwise; with the
\* logistic-regression pipeline a "phishing" label has probability.phishing
\* >= 0.5 and a "legitimate" label has probability.phishing <= 0.5 (at
\* exactly 0.5 the label can be "legitimate").
C8_LabelFollowsModelPredict ==
    NormalPath =>
        /\ outcome.value.prediction \in {"phishing", "legitimate"}
        /\ outcome.value.prediction = "phishing" <=>
               ModelPredict(detector.model, ProcessedOfCall) = 1
        /\ outcome.value.prediction = "phishing" => outcome.value.probability.phishing >= 50
        /\ outcome.value.prediction = "legitimate" => outcome.value.probability.phishing <= 50

C8_Witness ==
    /\ NormalPath
    /\ outcome.value.prediction = "legitimate"
    /\ outcome.value.probability.phishing = 50

\* the result of the last direct _calculate_risk_level call, and the base
\* level of its probability
RiskDone == riskOut # "pending"

RiskStep == Rank(riskOut) - Rank(BaseRisk(riskIn[1]))

\* C9: escalation applies at most one step: the returned level is the base
\* level or the level immediately above it.
C9_AtMostOneStep == RiskDone => RiskStep \in {0, 1}

\* C9 (amended): escalation is applied once and raises the level by at most
\* two steps: the returned level is the base level, one above it, or, only
\* for a base of very_low with suspicion_score >= 0.7, two above it (medium);
\* a base of low rises by at most one step and medium and high never change.
C9_AtMostTwoSteps ==
    RiskDone =>
        /\ RiskStep \in {0, 1, 2}
        /\ RiskStep = 2 => (BaseRisk(riskIn[1]) = "very_low" /\ riskIn[2] >= 70 /\ riskOut = "medium")
        /\ BaseRisk(riskIn[1]) \in {"medium", "high"} => RiskStep = 0

C9_Witness ==
    /\ RiskDone
    /\ BaseRisk(riskIn[1]) = "very_low"
    /\ riskOut = "medium"

\* C10: escalation is monotonic: the returned level is greater than or
\* equal to the base level of the probability; it never lowers risk.
C10_NeverLowers == RiskDone => Rank(riskOut) >= Rank(BaseRisk(riskIn[1]))

C10_Witness ==
    /\ RiskDone
    /\ BaseRisk(riskIn[1]) = "low"
    /\ riskIn[2] >= 70
    /\ riskOut = "medium"

\* the base level as the risk fusion rule states it, for a probability p in
\* hundredths
LevelOfProbability(p) ==
    IF p >= 80 THEN "high"
    ELSE IF p >= 60 THEN "medium"
    ELSE IF p >= 40 THEN "low"
    ELSE "very_low"

\* C11: the base level depends on the phishing probability alone (>= 0.8
\* high, >= 0.6 medium, >= 0.4 low, else very_low), and with a suspicion
\* score below 0.5 the returned level is exactly the base level.
C11_BaseLevelBelowHalf ==
    (RiskDone /\ riskIn[2] < 50) => riskOut = LevelOfProbability(riskIn[1])

C11_Witness ==
    /\ RiskDone
    /\ riskIn = <<80, 49>>
    /\ riskOut = "high"

\* C12: the escalation rule: suspicion >= 0.7 with a base of low or very_low
\* gives medium; otherwise suspicion >= 0.5 with a base of very_low gives
\* low; in every other case the result is the base level (low with
\* suspicion in [0.5, 0.7) stays low, medium and high never change).
C12_EscalationRule ==
    RiskDone =>
        riskOut =
            IF riskIn[2] >= 70 /\ LevelOfProbability(riskIn[1]) \in {"low", "very_low"}
            THEN "medium"
            ELSE IF riskIn[2] >= 50 /\ LevelOfProbability(riskIn[1]) = "very_low"
            THEN "low"
            ELSE LevelOfProbability(riskIn[1])

C12_Witness ==
    /\ RiskDone
    /\ riskIn = <<40, 69>>
    /\ riskOut = "low"

\* the last predict call returned a result with computed features
HasFeatures ==
    /\ PredictRan /\ outcome.kind = "return"
    /\ "suspicion_score" \in DOMAIN outcome.value.features

\* the weighted sum of the cue scores of a features dict, in hundredths
WeightedCues(f) ==
    20 * f.urgency_score + 15 * f.financial_score + 25 * f.threat_score
    + 10 * f.action_score + 30 * (IF f.has_suspicious_url THEN 1 ELSE 0)

\* C13: suspicion_score = min(1.0, 0.20*urgency + 0.15*financial +
\* 0.25*threat + 0.10*action + 0.30*[has_suspicious_url]) and so lies in
\* [0, 1], however many cue words the text contains.
C13_SuspicionScoreClamped ==
    HasFeatures =>
        /\ outcome.value.features.suspicion_score =
               Min(100, WeightedCues(outcome.value.features))
        /\ outcome.value.features.suspicion_score \in 0..100

C13_Witness ==
    /\ HasFeatures
    /\ call.text = Str(ManyCuesText)
    /\ WeightedCues(outcome.value.features) = 145
    /\ outcome.value.features.suspicion_score = 100

\* batch_predict ran in the last call
BatchRan == call.op = "batch_predict" /\ outcome.in = "batch_predict"

\* what predict gives on its own for the i-th text of the last batch
PredictAlone(i) == PredictTable[detector][call.texts[i]][call.tokOK]

\* C14: batch_predict(texts) returns a list of the same length as texts, in
\* the same order, whose i-th element equals predict(texts[i]), for lists
\* of texts (strings).
C14_BatchEqualsPredict ==
    (BatchRan /\ \A i \in 1..Len(call.texts) : IsStr(call.texts[i])) =>
        /\ outcome.kind = "return"
        /\ Len(outcome.value) = Len(call.texts)
        /\ \A i \in 1..Len(call.texts) :
               /\ PredictAlone(i).kind = "return"
               /\ outcome.value[i] = PredictAlone(i).value

C14_Witness ==
    /\ BatchRan /\ ModelLoaded
    /\ call.texts = <<Str("   "), Str("Meeting moved to Monday")>>
    /\ outcome.kind = "return"
    /\ outcome.value[1].prediction = "unknown"
    /\ "risk_level" \in DOMAIN outcome.value[2]

\* C15: one failing element does not abort a batch: batch_predict returns a
\* full-length list in which every element whose text predict handles on
\* its own holds that same result, and a failing element holds a degraded
\* result.
C15_FailureDoesNotAbort ==
    BatchRan =>
        /\ outcome.kind = "return"
        /\ Len(outcome.value) = Len(call.texts)
        /\ \A j \in 1..Len(call.texts) :
               IF PredictAlone(j).kind = "return"
               THEN outcome.value[j] = PredictAlone(j).value
               ELSE outcome.value[j].prediction = "unknown"

\* the last call repeats the kept call: same text, same tokenizer
\* availability, and the detector (model and stop words) is unchanged
RepeatsEarlier ==
    /\ PredictRan /\ earlier.kind = "call"
    /\ call.text = earlier.text /\ call.tokOK = earlier.tokOK
    /\ detector = earlier.detector

UrlsTable == [t \in Texts |-> FindUrls(t)]

\* positions in a list of URLs of those that satisfy P
UrlsWhere(urls, P(_)) == {i \in 1..Len(urls) : P(urls[i])}

FailedTable == [t \in Texts |-> UrlsWhere(UrlsTable[t], UrlParseRaises)]

\* the URLs of the last call's text, and those urlparse rejects
UrlsOfCall == UrlsTable[call.text.val]

FailedUrls == FailedTable[call.text.val]

\* C17: a feature extractor that throws is recovered locally: the offending
\* feature takes its neutral value, the other features and the classifier
\* verdict are still computed, and predict returns a normal labelled result
\* with a risk_level, not the "unknown" result.
C17_ExtractorFailureRecovered ==
    (ModelInvoked /\ detector.model.faulty = "none" /\ FailedUrls # {}) =>
        /\ outcome.kind = "return"
        /\ ~IsErrorResult(outcome.value)
        /\ outcome.value.prediction \in {"phishing", "legitimate"}
        /\ "risk_level" \in DOMAIN outcome.value
        /\ outcome.value.features.url_count = Len(UrlsOfCall)
        /\ outcome.value.features.text_length = Len(call.text.val)
        /\ Len(outcome.value.features.suspicious_domains) <= Len(UrlsOfCall) - Cardinality(FailedUrls)
        /\ Cardinality(FailedUrls) = Len(UrlsOfCall) =>
               /\ outcome.value.features.has_suspicious_url = FALSE
               /\ outcome.value.features.suspicious_domains = <<>>

C17_Witness ==
    /\ ModelInvoked /\ detector.model.faulty = "none"
    /\ call.text = Str(BadUrlText)
    /\ FailedUrls = {1}
    /\ outcome.kind = "return"
    /\ outcome.value.prediction = "phishing"
    /\ outcome.value.features.action_score = 2
    /\ outcome.value.features.has_suspicious_url = FALSE

\* C18: the degraded "unknown" result carries best-effort features: when
\* features were computed before the failure (here analyze_features has run
\* and building the result dict then fails), they appear in the features
\* field of the error result.
C18_ErrorResultKeepsFeatures ==
    (ModelInvoked /\ detector.model.faulty = "one_class") =>
        /\ outcome.kind = "return"
        /\ IsErrorResult(outcome.value)
        /\ outcome.value.features = FeaturesTable[call.text.val]

\* the host of a URL as its reader sees it: the netloc as written, without
\* a port and without the punctuation that follows the URL in the sentence
HostEnd(n) ==
    CHOOSE j \in 0..Len(n) :
        /\ j = 0 \/ Char(n, j) \notin {".", ","}
        /\ \A k \in (j + 1)..Len(n) : Char(n, k) \in {".", ","}

WithoutPort(n) == SubSeq(n, 1, SkipNotIn(n, 1, {":"}) - 1)

TrimPunctuation(n) == SubSeq(n, 1, HostEnd(n))

HostAsWritten(url) == TrimPunctuation(WithoutPort(UrlNetloc(url)))

\* the five criteria on a host: the first four on its lowercase form, the
\* typosquat spellings (capital I) on the host as written
MeetsCriterion(host) ==
    \/ IpPattern(StrLower(host))
    \/ TldPattern(StrLower(host))
    \/ ShortenerPattern(StrLower(host))
    \/ KeywordPattern(StrLower(host))
    \/ TypoPattern(host)

ParsesAndMeetsCriterion(url) ==
    ~UrlParseRaises(url) /\ MeetsCriterion(HostAsWritten(url))

CriterionTable == [t \in Texts |-> UrlsWhere(UrlsTable[t], ParsesAndMeetsCriterion)]

CriterionUrls == CriterionTable[call.text.val]

\* C19: extract_url_features flags a URL (sets has_suspicious_url and
\* records its host) whenever its host meets one of the five criteria, for
\* every URL form the pattern accepts, including uppercase hosts, URLs with
\* a port and URLs followed by punctuation.
C19_FlagsEveryCriterion ==
    (HasFeatures /\ CriterionUrls # {}) =>
        /\ outcome.value.features.has_suspicious_url = TRUE
        /\ Len(outcome.value.features.suspicious_domains) >= Cardinality(CriterionUrls)

\* the URLs of the last call's text that match one of the code's patterns
ParsesAndMatches(url) == ~UrlParseRaises(url) /\ MatchesSuspicious(UrlDomain(url))

FlaggedTable == [t \in Texts |-> UrlsWhere(UrlsTable[t], ParsesAndMatches)]

FlaggedUrls == FlaggedTable[call.text.val]

\* the j-th of a set of positions in increasing order
Nth(S, j) == CHOOSE i \in S : Cardinality({m \in S : m <= i}) = j

\* the domains of the flagged URLs of each text, in the order of the text
FlaggedDomains ==
    [t \in Texts |->
        [j \in 1..Cardinality(FlaggedTable[t]) |->
            UrlDomain(UrlsTable[t][Nth(FlaggedTable[t], j)])]]

\* C20: suspicious_domains holds exactly one entry per suspicious URL
\* occurrence, in the order of the text: a URL matching several patterns
\* gives one entry, the same host in n URLs gives n entries.
C20_OneEntryPerOccurrence ==
    HasFeatures =>
        /\ Len(outcome.value.features.suspicious_domains) = Cardinality(FlaggedUrls)
        /\ outcome.value.features.suspicious_domains = FlaggedDomains[call.text.val]

C20_Witness ==
    /\ HasFeatures
    /\ call.text = Str(RepeatedHostText)
    /\ TldPattern("secure-pay.com.tk") /\ KeywordPattern("secure-pay.com.tk")
    /\ outcome.value.features.suspicious_domains = <<"secure-pay.com.tk", "evil.tk", "evil.tk">>


\* C21: for the text "Urgent! Your account will be suspended. Click here to
\* verify immediately." predict returns features with urgency_score,
\* action_score and threat_score of at least 1 and a risk_level of at least
\* medium, whatever phishing probability the classifier returns
C21_UrgentScenario ==
    (PredictRan /\ call.text = Str(UrgentText))
        => /\ outcome.kind = "return"
           /\ "risk_level" \in DOMAIN outcome.value
           /\ outcome.value.features.urgency_score >= 1
           /\ outcome.value.features.action_score >= 1
           /\ outcome.value.features.threat_score >= 1
           /\ Rank(outcome.value.risk_level) >= Rank("medium")

\* the classifier gives the text probability 0 and the result is still medium
C21_Witness ==
    /\ PredictRan /\ call.text = Str(UrgentText)
    /\ modelFile = [kind |-> "Pipeline", proba |-> 0, faulty |-> "none"]
    /\ outcome.kind = "return"
    /\ outcome.value.prediction = "legitimate"
    /\ outcome.value.probability.phishing = 0
    /\ outcome.value.risk_level = "medium"


\* text[:100] + "..." if the text has more than 100 characters, else text
PreviewOf(t) == IF Len(t) <= 100 THEN t ELSE SubSeq(t, 1, 100) \o "..."

\* a batch request answered with a list of results
BatchAnswered == call.op = "POST /api/phish/batch" /\ outcome.kind = "return"

\* C22: the raw text preview of every result is the text itself when it has
\* at most 100 characters and otherwise its first 100 characters followed
\* by "...": in the response of a single request and in every entry of a
\* batch response, whichever path produced the result.
C22_PreviewRule ==
    /\ (call.op = "POST /api/phish/predict" /\ outcome.kind = "return") =>
          outcome.value.raw_text = PreviewOf(outcome.pipeline[1].text.val)
    /\ BatchAnswered =>
          \A i \in 1..Len(call.texts) :
              outcome.value.results[i].raw_text = PreviewOf(call.texts[i].val)


\* the string preprocess_text has before tokenization, per text
PreTokenizedTable == [t \in Texts |-> PreTokenized(t)]

\* lowercase letters, digits and single spaces between words only
IsNormalized(s) ==
    /\ \A i \in 1..Len(s) : Char(s, i) \in LowerSet \cup DigitSet \cup {" "}
    /\ \A i \in 1..Len(s) : Char(s, i) = " " => (1 < i /\ i < Len(s) /\ Char(s, i + 1) # " ")

NormalizedTable == [t \in Texts |-> IsNormalized(PreTokenizedTable[t])]

\* the label a model gives the fallback string of each text
FallbackLabelTable ==
    [m \in Models |-> [t \in Texts |->
        IF ModelPredict(m, PreTokenizedTable[t]) = 1 THEN "phishing" ELSE "legitimate"]]

\* a valid text reached preprocess_text while word_tokenize raises
TokenizeFailed == PredictRan /\ ModelLoaded /\ ValidText(call.text) /\ ~call.tokOK

\* C23: when word_tokenize raises, preprocess_text does not raise and
\* returns the string it had before tokenization (lowercased, URLs, e-mail
\* addresses and punctuation removed, whitespace collapsed, stop words
\* kept), and predict goes on with that string: a working model is asked
\* about it and its label is the result's.
C23_TokenizeFallback ==
    TokenizeFailed =>
        /\ ProcessedOfCall = PreTokenizedTable[call.text.val]
        /\ NormalizedTable[call.text.val]
        /\ call.text.val = "Win a FREE prize!! Click http://evil.tk/claim now"
              => ProcessedOfCall = "win a free prize click now"
        /\ outcome.kind = "return"
        /\ outcome.value.raw_text = RawText(call.text)
        /\ detector.model.faulty = "none" =>
              /\ ~IsErrorResult(outcome.value)
              /\ ProcessedOfCall # "" =>
                    outcome.value.prediction =
                        FallbackLabelTable[detector.model][call.text.val]

\* the tokenizer fails on a text with stop words, a URL and punctuation, and
\* the model labels the fallback string
C23_Witness ==
    /\ TokenizeFailed
    /\ call.text.val = "Win a FREE prize!! Click http://evil.tk/claim now"
    /\ detector.stop_words = "english"
    /\ detector.model.faulty = "none"
    /\ ProcessedOfCall = "win a free prize click now"
    /\ outcome.kind = "return"
    /\ outcome.value.prediction = "phishing"
    /\ "risk_level" \in DOMAIN outcome.value


\* longer than the API accepts, or empty after trimming
InvalidText(t) == Len(t) > MaxTextLength \/ StrStrip(t) = ""

\* C24: an oversized or empty text is rejected before any processing: a
\* single request with such a text is refused and nothing is handed to
\* predict, and for an element of a batch no pipeline step (normalization,
\* feature extraction, classifier) runs on it and its entry is an error.
C24_InvalidRejectedBeforeProcessing ==
    /\ (call.op = "POST /api/phish/predict" /\ InvalidText(call.text.val)) =>
          /\ outcome.kind = "raise" /\ outcome.status = 422
          /\ outcome.pipeline = <<>>
    /\ call.op = "POST /api/phish/batch" =>
          \A i \in 1..Len(outcome.pipeline) :
              InvalidText(outcome.pipeline[i].text.val) =>
                  /\ outcome.pipeline[i].steps = <<>>
                  /\ outcome.kind = "return" => "error" \in DOMAIN outcome.value.results[i]


\* C25: whatever the interleaving of the threads calling get_detector(),
\* at most one PhishingDetector is constructed, load_model runs at most
\* once, and all callers receive the same instance (for a model file that
\* loads).
C25_LoadedOncePerProcess ==
    ~LoadRaises(modelFile) =>
        /\ loadCount <= 1
        /\ \A t \in 1..MaxThreads : threads[t].made.kind # "NoneType" => threads[t].made.id = 1
        /\ \A t1, t2 \in 1..MaxThreads :
              (threads[t1].pc = "done" /\ threads[t2].pc = "done")
                  => threads[t1].got = threads[t2].got


\* C26: for an input predict treats as invalid (not a string, empty or
\* whitespace-only) no pipeline step runs (no normalization, no feature
\* extractor, no model call) and the result predict returns has empty
\* features.
C26_InvalidInputRunsNothing ==
    (PredictRan /\ ~ValidText(call.text)) =>
        /\ outcome.steps = <<>>
        /\ outcome.kind = "return"
        /\ outcome.value.features = EmptyDict


\* the host is one of the shortener domains or a subdomain of one: the
\* labels of the domain are labels of the host
IsShortenerHost(host) ==
    \E d \in {"bit.ly", "tinyurl", "t.co", "goo.gl", "ow.ly"} :
        Contains("." \o host \o ".", "." \o d \o ".")

\* a host meeting none of the five criteria
OrdinaryHost(host) ==
    /\ ~IpPattern(host)
    /\ ~TldPattern(host)
    /\ ~IsShortenerHost(host)
    /\ ~KeywordPattern(host)
    /\ ~TypoPattern(host)

NotOrdinaryUrl(url) == ~UrlParseRaises(url) /\ ~OrdinaryHost(UrlDomain(url))

\* the texts whose URLs all have ordinary hosts
OrdinaryTable == [t \in Texts |-> UrlsWhere(UrlsTable[t], NotOrdinaryUrl) = {}]

\* C27: has_suspicious_url is true only if some URL of the text has a host
\* meeting one of the five criteria: a text whose URLs all have ordinary
\* hosts (no IP literal, TLD outside tk/ml/ga/cf, not a shortener domain, no
\* security keyword, no typosquat) gives has_suspicious_url = FALSE and an
\* empty suspicious_domains list.
C27_OrdinaryHostsNotFlagged ==
    (HasFeatures /\ OrdinaryTable[call.text.val]) =>
        /\ outcome.value.features.has_suspicious_url = FALSE
        /\ outcome.value.features.suspicious_domains = <<>>


\* the rank of _calculate_risk_level(p, {'suspicion_score': s})
RiskAt(p, s) == Rank(calculate_risk_level(p, [suspicion_score |-> s]))

\* the values next to the thresholds of the two arguments
ThresholdGrid == {0, 39, 40, 49, 50, 59, 60, 69, 70, 79, 80, 100}

\* C28: _calculate_risk_level is monotone in both arguments, in the order
\* very_low < low < medium < high: the level of (p, s) is at most the level
\* one step up in either argument (which gives all p1 <= p2, s1 <= s2 by
\* chaining) and at most the level of every larger point of the threshold
\* grid; and the level is high only when the probability is >= 0.8.
C28_RiskMonotone ==
    RiskDone =>
        /\ riskIn[1] < 100 => Rank(riskOut) <= RiskAt(riskIn[1] + 1, riskIn[2])
        /\ riskIn[2] < 100 => Rank(riskOut) <= RiskAt(riskIn[1], riskIn[2] + 1)
        /\ \A p2 \in ThresholdGrid, s2 \in ThresholdGrid :
              (riskIn[1] <= p2 /\ riskIn[2] <= s2) => Rank(riskOut) <= RiskAt(p2, s2)
        /\ riskOut = "high" => riskIn[1] >= 80

\* a level raised by suspicion just below a probability threshold, and the
\* highest suspicion with a probability below 0.8
C28_Witness ==
    /\ RiskDone
    /\ \/ riskIn = <<39, 70>> /\ riskOut = "medium" /\ RiskAt(40, 70) = Rank("medium")
       \/ riskIn = <<79, 100>> /\ riskOut = "medium"


\* C29: the URL features of every result are consistent with each other:
\* has_suspicious_url is true exactly when suspicious_domains is not empty,
\* and suspicious_domains has at most url_count entries.
C29_UrlFeaturesConsistent ==
    HasFeatures =>
        /\ outcome.value.features.has_suspicious_url
              <=> (outcome.value.features.suspicious_domains # <<>>)
        /\ Len(outcome.value.features.suspicious_domains)
              <= outcome.value.features.url_count

\* three URLs of which two are flagged, and two URLs of which none is
C29_Witness ==
    /\ HasFeatures
    /\ \/ /\ call.text = Str(LongText)
          /\ outcome.value.features.url_count = 3
          /\ outcome.value.features.has_suspicious_url = TRUE
          /\ Len(outcome.value.features.suspicious_domains) = 2
       \/ /\ call.text = Str(TypoPortText)
          /\ outcome.value.features.url_count = 2
          /\ outcome.value.features.has_suspicious_url = FALSE
          /\ outcome.value.features.suspicious_domains = <<>>


CuesDone == call.op = "extract_text_features"

ScoreKeys == {"urgency_score", "financial_score", "threat_score", "action_score"}

\* C30: each cue score counts the distinct keywords of its list that occur
\* in the lowercased text, not their occurrences: appending a keyword that
\* the text already contains, any number of times, leaves the four scores
\* unchanged; a text with every keyword scores the list sizes; and the
\* scores never exceed 10, 14, 12 and 12.
C30_DistinctKeywordCount ==
    CuesDone =>
        /\ Contains(StrLower(call.base), call.word) =>
              \A k \in ScoreKeys : outcome.value[k] = outcome.base[k]
        /\ call.base = AllCuesText =>
              /\ outcome.value.urgency_score = 10 /\ outcome.value.financial_score = 14
              /\ outcome.value.threat_score = 12 /\ outcome.value.action_score = 12
        /\ outcome.value.urgency_score <= 10
        /\ outcome.value.financial_score <= 14
        /\ outcome.value.threat_score <= 12
        /\ outcome.value.action_score <= 12

\* "urgent" appended twice to a text that has it already
C30_Witness ==
    /\ CuesDone
    /\ call.base = UrgentText /\ call.word = "urgent" /\ call.n = 2
    /\ outcome.base.urgency_score = 2
    /\ outcome.value.urgency_score = 2
    /\ outcome.value.word_count = outcome.base.word_count + 2

====
